---- MODULE Spec2Model ----
(***************************************************************************)
(* A model of the iterative dependency-conflict resolution scripts under   *)
(* src/automation: the forward-conflict resolver                           *)
(* (dependency_resolver_final.py), the reverse-conflict resolver           *)
(* (rev_dependency_resolver_final.py), the trail selector                  *)
(* (get_version_for_rev_dependendencies.py), the requirement-manifest      *)
(* maximum (get_normal_max_versions.py) and the iteration engine           *)
(* (update_dependency_rev_dependency.py).                                  *)
(*                                                                         *)
(* Versions are natural numbers ordered as packaging.version.Version       *)
(* orders the strings they stand for; a string that Version() rejects is   *)
(* the token BadVer.  A specifier set is the set of versions it contains.  *)
(***************************************************************************)
EXTENDS Integers, Sequences, FiniteSets, TLC

\* ------------------------------------------------------------------ bounds
\* Highest version number of the component inputs (index listings, pins,
\* installed versions) drawn by the component specifications.
MaxVer == 3
\* Highest version number of a package in the engine's environment.
EnvMaxVer == 2
\* Number of requirement manifests named by the configuration.
NumFiles == 2
\* Highest number of lines of a manifest drawn by the store specification.
MaxLines == 2

\* --------------------------------------------------------------- sentinels
\* Python's None: a probe that reports nothing, a query without a result.
None == -1
\* A version string that packaging.version.Version() rejects.
BadVer == -2
\* `get_installed_version(pkg_name) or "Not Installed"`.
NotInstalledStr == -3
\* `get_installed_version(pkg_name) or "Installation failed"`.
InstallationFailedStr == -4
\* "previous_version": "Direct installation", written by the wrapper.
DirectInstallationStr == -5
\* `get_installed_version(pkg_name) or '0.0.0'`: the lowest version.
ZeroVersion == 0
MAX_ITERATIONS == 10

Versions == 1..MaxVer
EnvVersions == 1..EnvMaxVer
Pkgs == {"a", "b"}

\* ---------------------------------------------------------- version algebra
\* Version(s) raises InvalidVersion exactly on a rejected string.
IsValidVersion(tok) == tok >= 0

\* A requirement's specifier as pipdeptree reports it: the literal "Any",
\* the empty string, a specifier set (the versions it contains), or a string
\* SpecifierSet() rejects.
AnySpec == [kind |-> "any", vs |-> {}]
EmptySpec == [kind |-> "empty", vs |-> {}]
InvalidSpec == [kind |-> "invalid", vs |-> {}]
SetSpec(S) == [kind |-> "set", vs |-> S]

\* `Version(v) in SpecifierSet(spec)` for a parsed specifier; the empty
\* specifier set contains every version.
Contains(spec, v) == IF spec.kind = "set" THEN v \in spec.vs ELSE TRUE

SetMin(S) == CHOOSE x \in S : \A y \in S : x <= y
SetMax(S) == CHOOSE x \in S : \A y \in S : x >= y

\* sorted(versions, key=Version): the ascending arrangement of the listing.
RECURSIVE SortAsc(_)
SortAsc(S) == IF S = {} THEN << >>
              ELSE LET m == SetMin(S) IN << m >> \o SortAsc(S \ {m})

\* list.index(x): 0-based position of the first element equal to x.
RECURSIVE IndexFrom(_, _, _)
IndexFrom(seq, x, i) == IF seq[i] = x THEN i - 1 ELSE IndexFrom(seq, x, i + 1)
ListIndex(seq, x) == IndexFrom(seq, x, 1)

\* ------------------------------------------------- requirement manifests
\* read_requirements() result per file: name -> pinned version string, None
\* when the file has no pin line for the name.  A manifest store is the
\* ordered list of these dictionaries.
\* get_max_version_across_files: scan the files in order, keep the first
\* strictly greatest valid pin.
RECURSIVE MaxScan(_, _, _, _)
MaxScan(files, name, i, acc) ==
  IF i > Len(files) THEN acc
  ELSE LET ver == files[i][name]
           take == /\ ver # None
                   /\ IsValidVersion(ver)
                   /\ (acc[1] = None \/ ver > acc[1])
       IN MaxScan(files, name, i + 1, IF take THEN << ver, i >> ELSE acc)

get_max_version_across_files(files, name) == MaxScan(files, name, 1, << None, None >>)

\* get_max_requirement_version: the subprocess wrapper around the "max"
\* action; (None, None) when the script exits 1 or its output does not parse.
get_max_requirement_version(files, name) ==
  LET r == get_max_version_across_files(files, name)
  IN IF r[1] # None THEN r ELSE << None, None >>

\* ------------------------------------- requirement manifests, line by line
\* Package names as files and command lines spell them: two spellings of one
\* package that differ in letter case, and another package.
Names == {"flask", "Flask", "six"}
\* str.lower()
lower(name) == IF name = "Flask" THEN "flask" ELSE name
LowerNames == {lower(n) : n \in Names}

\* The lines of a requirement manifest:
\*   blank    an empty line;
\*   comment  a line whose first character is '#', without "==";
\*   text     any other line without "==" ("-r base.txt", "requests>=2");
\*   pin      NAME==VERSION, possibly indented or with blanks around "=="
\*            (indent) and possibly followed by a comment (trail);
\*   multi    a line that holds "==" more than once, such as
\*            NAME==VERSION ; python_version=="3.8".
BlankLine == [kind |-> "blank", name |-> "", version |-> None,
              indent |-> FALSE, trail |-> FALSE]
CommentLine == [kind |-> "comment", name |-> "", version |-> None,
                indent |-> FALSE, trail |-> FALSE]
TextLine == [kind |-> "text", name |-> "", version |-> None,
             indent |-> FALSE, trail |-> FALSE]
PinLine(name, version, indent, trail) ==
  [kind |-> "pin", name |-> name, version |-> version,
   indent |-> indent, trail |-> trail]
MultiLine(name, version) ==
  [kind |-> "multi", name |-> name, version |-> version,
   indent |-> FALSE, trail |-> FALSE]

\* A Python dict as the list of its (key, value) pairs in insertion order:
\* d[k] = v keeps the position of a key the dict already has.
RECURSIVE KeyIndex(_, _, _)
KeyIndex(d, k, i) ==
  IF i > Len(d) THEN 0
  ELSE IF d[i][1] = k THEN i ELSE KeyIndex(d, k, i + 1)
DictSet(d, k, v) ==
  LET i == KeyIndex(d, k, 1)
  IN IF i = 0 THEN Append(d, << k, v >>) ELSE [d EXCEPT ![i] = << k, v >>]

\* `pkg, ver = line.split('==')`: the text after "==" up to the end of the
\* line, stripped; with a trailing comment it is a string Version() rejects.
split_ver(line) == IF line.trail THEN BadVer ELSE line.version

\* read_requirements(): the loop runs inside the try block, so the
\* ValueError that the two-name unpacking raises on a line with more than one
\* "==" ends the reading, and the pins read so far are returned.
RECURSIVE ReadFrom(_, _, _)
ReadFrom(lines, i, packages) ==
  IF i > Len(lines) THEN packages
  ELSE IF lines[i].kind = "multi" THEN packages
  ELSE IF lines[i].kind = "pin"
       THEN ReadFrom(lines, i + 1, DictSet(packages, lines[i].name, split_ver(lines[i])))
  ELSE ReadFrom(lines, i + 1, packages)

read_requirements(lines) == ReadFrom(lines, 1, << >>)

\* packages_lower = {pkg.lower(): ver for pkg, ver in packages.items()}
RECURSIVE LowerFrom(_, _, _)
LowerFrom(packages, i, acc) ==
  IF i > Len(packages) THEN acc
  ELSE LowerFrom(packages, i + 1,
                 [acc EXCEPT ![lower(packages[i][1])] = packages[i][2]])

packages_lower(packages) == LowerFrom(packages, 1, [n \in LowerNames |-> None])

\* get_package_version(file, package_name): None when the name is not found.
get_package_version(lines, package_name) ==
  packages_lower(read_requirements(lines))[lower(package_name)]

\* The "max" action of the command line: get_max_version_across_files over
\* the configured files, each read and lower-cased.
max_action(files, package_name) ==
  get_max_version_across_files(
    [i \in 1..Len(files) |-> packages_lower(read_requirements(files[i]))],
    lower(package_name))

\* The test of update_package_version_in_file on one line: not empty, not a
\* comment, holds "==", and the text before the first "==" is the name in
\* any letter case.
update_matches(line, package_name) ==
  /\ line.kind \in {"pin", "multi"}
  /\ lower(line.name) = lower(package_name)

\* line = f"{pkg.strip()}=={new_version}\n"
updated_line(line, new_version) == PinLine(line.name, new_version, FALSE, FALSE)

\* update_package_version_in_file(): the file written back and the value
\* returned.
update_package_version_in_file(lines, package_name, new_version) ==
  [lines |-> [i \in 1..Len(lines) |->
                IF update_matches(lines[i], package_name)
                THEN updated_line(lines[i], new_version) ELSE lines[i]],
   updated |-> \E i \in 1..Len(lines) : update_matches(lines[i], package_name)]

\* ---------------------------------------------------- task-manifest editor
\* The lines of a task manifest as set_package_version() sees them:
\*   list    "  - NAME==VERSION" and whatever follows the version (suffix);
\*   single  "  name: NAME==VERSION" and whatever follows the version;
\*   other   a line neither pattern matches.
TaskLine(shape, name, version, suffix) ==
  [shape |-> shape, name |-> name, version |-> version, suffix |-> suffix]
OtherLine == TaskLine("other", "", None, FALSE)

\* list_item_regex / single_item_regex, compiled with re.IGNORECASE around
\* re.escape(pkg_name).
regex_match(line, pkg_name) ==
  /\ line.shape \in {"list", "single"}
  /\ lower(line.name) = lower(pkg_name)

\* A variant of the rewrite that spells the name as the command line does.
TaskNewLineAsArgument(line, pkg_name, new_version) ==
  TaskLine(line.shape, pkg_name, new_version, line.suffix)

\* new_line = f"{prefix}{package_as_written}=={new_version}{suffix}\n", built
\* from the groups of the match.
task_new_line(line, pkg_name, new_version) ==
  TaskLine(line.shape, line.name, new_version, line.suffix)

\* The loop over the lines: every match sets package_found and old_version,
\* and a match at another version is rewritten with the name as written.
RECURSIVE TaskScan(_, _, _, _, _)
TaskScan(lines, idx, pkg_name, new_version, st) ==
  IF idx > Len(lines) THEN st
  ELSE IF ~regex_match(lines[idx], pkg_name)
       THEN TaskScan(lines, idx + 1, pkg_name, new_version, st)
  ELSE LET old_version == lines[idx].version
           found == [st EXCEPT !.package_found = TRUE, !.old_version = old_version]
       IN TaskScan(lines, idx + 1, pkg_name, new_version,
                   IF old_version # new_version
                   THEN [found EXCEPT
                           !.updated = TRUE,
                           !.lines[idx] = task_new_line(lines[idx], pkg_name, new_version)]
                   ELSE found)

\* A variant of the result that looks at package_found first.
TaskStatusFoundFirst(updated, package_found) ==
  IF package_found THEN "unchanged"
  ELSE IF updated THEN "updated" ELSE "not_found"

\* `if updated: ... elif package_found: ... else: ...`
task_status(updated, package_found) ==
  IF updated THEN "updated"
  ELSE IF package_found THEN "unchanged" ELSE "not_found"

\* set_package_version() on an existing file: the status and old_version of
\* the returned dict, the lines of the file afterwards, and whether the file
\* was written.
set_package_version(pkg_name, new_version, lines) ==
  LET st == TaskScan(lines, 1, pkg_name, new_version,
                     [lines |-> lines, updated |-> FALSE,
                      package_found |-> FALSE, old_version |-> None])
      status == task_status(st.updated, st.package_found)
  IN [status |-> status,
      old_version |-> IF status = "updated" THEN st.old_version ELSE None,
      lines |-> st.lines,
      written |-> st.updated]

\* ------------------------------------------------------- forward resolver
\* get_available_versions (dependency_resolver_final.py): the listing is
\* sorted with key=Version without a validity filter, so a rejected string
\* raises InvalidVersion out of the function.
fwd_versions_raises(listing) == BadVer \in listing
fwd_get_available_versions(listing) == SortAsc(listing)

\* find_lowest_valid_version: the first version of the ascending listing that
\* the specifier contains, None when there is none.
RECURSIVE FirstIn(_, _, _)
FirstIn(versions, spec, i) ==
  IF i > Len(versions) THEN None
  ELSE IF IsValidVersion(versions[i]) /\ Contains(spec, versions[i]) THEN versions[i]
  ELSE FirstIn(versions, spec, i + 1)

find_lowest_valid_version(listing, spec) ==
  FirstIn(fwd_get_available_versions(listing), spec, 1)

\* A variant of the choice that never looks at the manifest pin once the index
\* has a satisfying version.
ChosenVersionMaxLost(py_version, req_version) ==
  IF py_version # None THEN py_version ELSE req_version

\* The if/elif chain of main(): chosen_version, None when no pin is emitted.
chosen_version(py_version, req_version) ==
  IF py_version # None /\ req_version # None
  THEN (IF req_version > py_version THEN req_version ELSE py_version)
  ELSE IF req_version # None /\ py_version = None THEN req_version
  ELSE IF py_version = None /\ req_version = None THEN None
  ELSE py_version

\* A variant without the `installed_version in ["?", None, ""]` skip.
DepViolatedNoMissingCheck(dep) ==
  /\ ~(dep.required_version.kind \in {"any", "empty"})
  /\ dep.required_version.kind # "invalid"
  /\ ~Contains(dep.required_version, dep.installed_version)

\* Whether the loop body of main() reaches the version choice for a
\* dependency: it has an installed version, a specifier other than "Any" and
\* "", and the installed version is not in the specifier set.
DepViolated(dep) ==
  /\ dep.installed_version # None
  /\ ~(dep.required_version.kind \in {"any", "empty"})
  /\ dep.required_version.kind # "invalid"
  /\ ~Contains(dep.required_version, dep.installed_version)

\* A variant that prints the bare name of a violated dependency.
DepIssueBareName(dep, listing, files) ==
  IF ~DepViolated(dep) THEN {}
  ELSE {[name |-> dep.package_name, version |-> None]}

\* The pins main() appends for one dependency (at most one).  An exception
\* inside the try block (invalid specifier, InvalidVersion raised by the
\* listing sort) is logged and leaves the dependency without a pin.
DepIssue(dep, listing, files) ==
  IF ~DepViolated(dep) THEN {}
  ELSE IF fwd_versions_raises(listing) THEN {}
  ELSE LET py_version == find_lowest_valid_version(listing, dep.required_version)
           req_version == get_max_requirement_version(files, dep.package_name)[1]
           chosen == chosen_version(py_version, req_version)
       IN IF chosen = None THEN {}
          ELSE {[name |-> dep.package_name, version |-> chosen]}

\* main() of dependency_resolver_final.py: the pins printed for a package
\* whose pipdeptree entry lists `dependencies`; index(d) is the index listing
\* of d.  No package info: "[]" and exit 1, which the engine reads as [].
dependency_resolver_final(found, dependencies, index, files) ==
  IF ~found THEN {}
  ELSE UNION {DepIssue(dep, index[dep.package_name], files) : dep \in dependencies}

\* --------------------------------------------------------- trail selector
\* get_available_versions (get_version_for_rev_dependendencies.py): every
\* string is validated with Version() and a rejected one is logged and
\* skipped before the sort.
trail_get_available_versions(listing) ==
  SortAsc({v \in listing : IsValidVersion(v)})

\* A variant of the midpoint that rounds up.
TrailIndexUpper(first_index, latest_index) == (first_index + latest_index + 1) \div 2

\* trail_index = (first_index + latest_index) // 2
trail_index(first_index, latest_index) == (first_index + latest_index) \div 2

\* main(): what the script prints.  Nothing (printed = FALSE) when there are
\* no versions (exit 1), the input version is invalid (exit 1) or no version
\* is higher (exit 0); otherwise the first higher, the latest and the trail
\* version.
NoOutput == [printed |-> FALSE, first |-> None, latest |-> None, trail |-> None]

trail_main(listing, input_version) ==
  LET versions == trail_get_available_versions(listing)
      higher_versions == SelectSeq(versions, LAMBDA v : v > input_version)
  IN IF versions = << >> THEN NoOutput
     ELSE IF ~IsValidVersion(input_version) THEN NoOutput
     ELSE IF higher_versions = << >> THEN NoOutput
     ELSE LET first_higher_version == higher_versions[1]
              latest_version == higher_versions[Len(higher_versions)]
              first_index == ListIndex(versions, first_higher_version)
              latest_index == ListIndex(versions, latest_version)
          IN [printed |-> TRUE,
              first |-> first_higher_version,
              latest |-> latest_version,
              trail |-> versions[trail_index(first_index, latest_index) + 1]]

\* A variant that takes the lowest version of the index.
TrailVersionLowest(listing, current_version) ==
  LET valid == {v \in listing : IsValidVersion(v)}
  IN IF valid = {} THEN None ELSE SetMin(valid)

\* get_trail_version(): the output of the script run with --trail; None when
\* the command fails, and an empty output is falsy as well.
get_trail_version(listing, current_version) ==
  trail_main(listing, current_version).trail

\* -------------------------------------------------------- reverse resolver
\* One line "dependent;constraint" cut from `pipdeptree --reverse`: the
\* dependent and the constraint it declares on the target.  The constraint is
\* the target's name as pipdeptree spells it (same_name: spelled exactly as
\* the argument) followed by a specifier, or the bare name (bare).

\* A variant that finds every parsed constraint broken.
RequirementNeverSatisfied(line, current_version) ==
  IF line.bare THEN "True"
  ELSE IF line.spec.kind = "invalid" THEN "None"
  ELSE "False"

\* requirement_is_satisfied(package_name + required_spec, current_version):
\* the concatenation parses as a requirement whose specifier is the
\* constraint's; "None" when it does not parse.
requirement_is_satisfied(line, current_version) ==
  IF line.bare THEN "True"
  ELSE IF line.spec.kind = "invalid" THEN "None"
  ELSE IF Contains(line.spec, current_version) THEN "True" ELSE "False"

\* `if required_spec.strip() == package_name: continue`.
no_specifier(line) == line.bare /\ line.same_name

\* A variant of the loop body without the `if not satisfied` test.
IsProblemIgnoresSatisfied(line, current_version) ==
  /\ ~no_specifier(line)
  /\ requirement_is_satisfied(line, current_version) # "None"

\* The body of the loop over the lines: whether the dependent is appended.
is_problem(line, current_version) ==
  /\ ~no_specifier(line)
  /\ requirement_is_satisfied(line, current_version) = "False"

\* pkg_name_only = dependent_package.split("==")[0].strip()
pkg_name_only(dependent_package) == dependent_package.name

\* main(): the dependents printed, names only; "[]" and exit 1 when the
\* target is not installed.
rev_dependency_resolver_final(current_version, lines) ==
  IF current_version = None THEN {}
  ELSE {pkg_name_only(line.dependent_package) :
          line \in {l \in lines : is_problem(l, current_version)}}

\* ------------------------------------------------------------------ state
VARIABLES
  env,                \* what the index, the package metadata and the manifests hold
  installed,          \* package -> installed version, None when not installed
  pc,                 \* position of main() of the engine
  iteration,
  packages_to_check,
  todo,               \* packages (or candidates) the current for loop has left
  dependency_issue_packages,
  rev_deps_trail_packages,
  combined_list_to_upgrade,
  packages_to_check_next_iteration,
  upgrade_history,    \* package -> entry, NoEntry when the key is absent
  pkg_spec,           \* the candidate being processed
  previous_version,
  iter_log,           \* this iteration as the environment saw it: resolver runs,
                      \* installs issued and failed, installed versions at its
                      \* start, packages whose installed version an install changed,
                      \* and the installed versions when the loop started
  attempt,            \* the last install attempt as the environment saw it
  call,               \* component specification: the inputs of the call
  result,             \* component specification: what the call printed
  input_packages,     \* wrapper: the pins of the command line, NAME==VERSION
  upgraded_versions,  \* wrapper: the version of each pin
  package_specs,      \* wrapper: the pins handed to the pre-install
  requirement_files,  \* wrapper: the configured requirement manifests, by line
  req_file,           \* wrapper: number of the manifest being updated
  set_log,            \* wrapper: the last `set` command as the manifest saw it
  handoff_file,       \* upgrade_history.json in the working directory
  yml_files           \* wrapper: the configured task manifests, by line

wrapper_vars == << input_packages, upgraded_versions, package_specs,
                   requirement_files, req_file, set_log, handoff_file,
                   yml_files >>

vars == << env, installed, pc, iteration, packages_to_check, todo,
           dependency_issue_packages, rev_deps_trail_packages,
           combined_list_to_upgrade, packages_to_check_next_iteration,
           upgrade_history, pkg_spec, previous_version, iter_log, attempt,
           call, result, wrapper_vars >>

engine_vars == << env, installed, pc, iteration, packages_to_check, todo,
                  dependency_issue_packages, rev_deps_trail_packages,
                  combined_list_to_upgrade, packages_to_check_next_iteration,
                  upgrade_history, pkg_spec, previous_version, iter_log, attempt >>

\* ------------------------------------------------------------ environment
\* A package that declares no dependency on another.
NoDep == [kind |-> "nodep", vs |-> {}]
NoEntry == [previous_version |-> None, upgraded_version |-> None]
NoPin == [name |-> "", version |-> None]
NoLog == [fwd |-> 0, rev |-> 0, install |-> 0, failed |-> 0,
            start |-> [p \in Pkgs |-> None], changed |-> {},
            loop_start |-> [p \in Pkgs |-> None]]
NoAttempt == [name |-> "", before |-> None, after |-> None, ok |-> FALSE]
NoCall == [op |-> "none"]
NoSet == [file |-> 0, name |-> "", new_version |-> None, before |-> << >>, after |-> << >>]
\* upgrade_history.json does not exist.  `written` tells whether the engine
\* invocation of the current run wrote the file.
NoFile == [exists |-> FALSE, history |-> << >>, written |-> FALSE]
\* The wrapper is not running.
NoWrapper ==
  /\ input_packages = << >>
  /\ upgraded_versions = << >>
  /\ package_specs = << >>
  /\ requirement_files = << >>
  /\ req_file = 0
  /\ set_log = NoSet
  /\ handoff_file = NoFile
  /\ yml_files = << >>

\* The specifiers a release of the environment declares on another package.
EnvSpecs == {NoDep, SetSpec({})} \cup {SetSpec({v}) : v \in EnvVersions}

\* get_installed_version(): `pip3 show`, None when the package is not
\* installed.
get_installed_version(inst, package_name) == inst[package_name]

\* The "dependencies" of the pipdeptree entry of an installed package: one
\* record per declared dependency, with the installed version pipdeptree
\* sees ("?" for a missing one, None here).
pipdeptree_dependencies(e, inst, package) ==
  {[package_name |-> d,
    installed_version |-> inst[d],
    required_version |-> e.requires[package][inst[package]][d]] :
      d \in {x \in Pkgs : e.requires[package][inst[package]][x] # NoDep}}

\* parse_dependency_issues(): the list dependency_resolver_final.py prints.
parse_dependency_issues(e, inst, package) ==
  IF inst[package] = None THEN {}
  ELSE dependency_resolver_final(TRUE, pipdeptree_dependencies(e, inst, package),
                                 e.pypi, e.req_files)

\* The lines `pipdeptree --reverse` gives for a target: the installed
\* packages that declare a dependency on it.
pipdeptree_reverse(e, inst, package) ==
  {[dependent_package |-> [name |-> q, version |-> inst[q]],
    bare |-> FALSE, same_name |-> TRUE,
    spec |-> e.requires[q][inst[q]][package]] :
      q \in {x \in Pkgs : /\ inst[x] # None
                          /\ e.requires[x][inst[x]][package] # NoDep}}

\* parse_reverse_dependencies(): the list rev_dependency_resolver_final.py
\* prints.
parse_reverse_dependencies(e, inst, package) ==
  rev_dependency_resolver_final(get_installed_version(inst, package),
                                pipdeptree_reverse(e, inst, package))

\* Step 2 for one package of the frontier: a trail pin for every reverse
\* dependency that is installed and has a trail version.
reverse_trail_pins(e, inst, package) ==
  {[name |-> rev_dep,
    version |-> get_trail_version(e.pypi[rev_dep], get_installed_version(inst, rev_dep))] :
      rev_dep \in {r \in parse_reverse_dependencies(e, inst, package) :
                     /\ get_installed_version(inst, r) # None
                     /\ get_trail_version(e.pypi[r], get_installed_version(inst, r)) # None}}

\* `x or default`.
Or(x, default) == IF x = None THEN default ELSE x

\* ----------------------------------------------------------------- engine
\* The environments the engine is run in: every release of a package declares
\* at most one specifier on the other package, the index lists every version,
\* and one manifest may pin package "b".
EnvRequires ==
  {[p \in Pkgs |-> [v \in EnvVersions |-> [d \in Pkgs |->
       IF d = p THEN NoDep ELSE o[p][v]]]] :
     o \in [Pkgs -> [EnvVersions -> EnvSpecs]]}

EnvFiles ==
  {<< [p \in Pkgs |-> IF p = "b" THEN pin ELSE None] >> : pin \in EnvVersions \cup {None}}

Environments ==
  {[requires |-> r, pypi |-> [p \in Pkgs |-> EnvVersions], req_files |-> f] :
     r \in EnvRequires, f \in EnvFiles}

\* upgrade_history = {}; iteration = 0; packages_to_check = set(initial_packages)
Init ==
  /\ env \in Environments
  /\ installed \in [Pkgs -> EnvVersions \cup {None}]
  /\ packages_to_check \in (SUBSET Pkgs) \ {{}}
  /\ pc = "while"
  /\ iteration = 0
  /\ todo = {}
  /\ dependency_issue_packages = {}
  /\ rev_deps_trail_packages = {}
  /\ combined_list_to_upgrade = {}
  /\ packages_to_check_next_iteration = {}
  /\ upgrade_history = [p \in Pkgs |-> NoEntry]
  /\ pkg_spec = NoPin
  /\ previous_version = None
  /\ iter_log = NoLog
  /\ attempt = NoAttempt
  /\ call = NoCall
  /\ result = {}
  /\ NoWrapper

\* A variant of the loop condition with the bound off by one.
WhileConditionOffByOne(iter, to_check) == iter <= MAX_ITERATIONS /\ to_check # {}

\* `while iteration < MAX_ITERATIONS and packages_to_check`
while_condition(iter, to_check) == iter < MAX_ITERATIONS /\ to_check # {}

WhileEnter ==
  /\ pc = "while"
  /\ while_condition(iteration, packages_to_check)
  /\ iteration' = iteration + 1
  /\ dependency_issue_packages' = {}
  /\ rev_deps_trail_packages' = {}
  /\ todo' = packages_to_check
  /\ iter_log' = [NoLog EXCEPT
                    !.start = installed,
                    !.loop_start = IF iteration = 0 THEN installed
                                   ELSE iter_log.loop_start]
  /\ pc' = "step1"
  /\ UNCHANGED << env, installed, packages_to_check, combined_list_to_upgrade,
                  packages_to_check_next_iteration, upgrade_history, pkg_spec,
                  previous_version, attempt, call, result, wrapper_vars >>

\* The loop condition fails: the summary is printed and the history returned.
WhileExit ==
  /\ pc = "while"
  /\ ~while_condition(iteration, packages_to_check)
  /\ pc' = "done"
  /\ UNCHANGED << env, installed, iteration, packages_to_check, todo,
                  dependency_issue_packages, rev_deps_trail_packages,
                  combined_list_to_upgrade, packages_to_check_next_iteration,
                  upgrade_history, pkg_spec, previous_version, iter_log, attempt,
                  call, result, wrapper_vars >>

\* A variant that leaves the Step 1 loop after its first pass.
AfterStep1Early(rest) == "step2"

\* Where main() stands after one pass of the Step 1 loop, `rest` being the
\* packages the loop has left.
after_step1(rest) == IF rest = {} THEN "step2" ELSE "step1"

\* Step 1, one pass of `for package in packages_to_check`.
Step1 ==
  /\ pc = "step1"
  /\ \E package \in todo :
       LET rest == todo \ {package} IN
       /\ dependency_issue_packages' =
            dependency_issue_packages \cup parse_dependency_issues(env, installed, package)
       /\ iter_log' = [iter_log EXCEPT !.fwd = @ + 1]
       /\ pc' = after_step1(rest)
       /\ todo' = IF pc' = "step2" THEN packages_to_check ELSE rest
  /\ UNCHANGED << env, installed, iteration, packages_to_check,
                  rev_deps_trail_packages, combined_list_to_upgrade,
                  packages_to_check_next_iteration, upgrade_history, pkg_spec,
                  previous_version, attempt, call, result, wrapper_vars >>

after_step2(rest) == IF rest = {} THEN "combine" ELSE "step2"

\* Step 2, one pass of the second `for package in packages_to_check`.
Step2 ==
  /\ pc = "step2"
  /\ \E package \in todo :
       LET rest == todo \ {package} IN
       /\ rev_deps_trail_packages' =
            rev_deps_trail_packages \cup reverse_trail_pins(env, installed, package)
       /\ iter_log' = [iter_log EXCEPT !.rev = @ + 1]
       /\ pc' = after_step2(rest)
       /\ todo' = IF pc' = "combine" THEN {} ELSE rest
  /\ UNCHANGED << env, installed, iteration, packages_to_check,
                  dependency_issue_packages, combined_list_to_upgrade,
                  packages_to_check_next_iteration, upgrade_history, pkg_spec,
                  previous_version, attempt, call, result, wrapper_vars >>

\* combined_list_to_upgrade = dependency_issue_packages | rev_deps_trail_packages;
\* break when it is empty, otherwise start the install loop.
Combine ==
  /\ pc = "combine"
  /\ combined_list_to_upgrade' = dependency_issue_packages \cup rev_deps_trail_packages
  /\ IF combined_list_to_upgrade' = {}
     THEN /\ pc' = "done"
          /\ UNCHANGED << todo, packages_to_check_next_iteration >>
     ELSE /\ pc' = "for"
          /\ todo' = combined_list_to_upgrade'
          /\ packages_to_check_next_iteration' = {}
  /\ UNCHANGED << env, installed, iteration, packages_to_check,
                  dependency_issue_packages, rev_deps_trail_packages,
                  upgrade_history, pkg_spec, previous_version, iter_log, attempt,
                  call, result, wrapper_vars >>

\* `if "==" in pkg_spec` and its else branch: the pin to install, NoPin when
\* a bare name has no trail version (`continue`).
resolve_pkg_spec(e, inst, c) ==
  IF c.version # None THEN c
  ELSE LET current_version == Or(get_installed_version(inst, c.name), ZeroVersion)
           pkg_version == get_trail_version(e.pypi[c.name], current_version)
       IN IF pkg_version = None THEN NoPin
          ELSE [name |-> c.name, version |-> pkg_version]

\* A variant that probes the whole pin string, which pip does not know.
ProbePreviousOfPin(inst, pkg_name) == NotInstalledStr

\* previous_version = get_installed_version(pkg_name) or "Not Installed"
probe_previous(inst, pkg_name) == Or(get_installed_version(inst, pkg_name), NotInstalledStr)

\* One pass of `for pkg_spec in combined_list_to_upgrade` up to the install.
ForNext ==
  /\ pc = "for"
  /\ \E c \in todo :
       LET spec == resolve_pkg_spec(env, installed, c) IN
       /\ todo' = todo \ {c}
       /\ IF spec = NoPin
          THEN /\ pc' = "for"
               /\ UNCHANGED << pkg_spec, previous_version >>
          ELSE /\ pkg_spec' = spec
               /\ previous_version' = probe_previous(installed, spec.name)
               /\ pc' = "install"
  /\ UNCHANGED << env, installed, iteration, packages_to_check,
                  dependency_issue_packages, rev_deps_trail_packages,
                  combined_list_to_upgrade, packages_to_check_next_iteration,
                  upgrade_history, iter_log, attempt, call, result, wrapper_vars >>

\* packages_to_check = packages_to_check_next_iteration
ForExit ==
  /\ pc = "for"
  /\ todo = {}
  /\ packages_to_check' = packages_to_check_next_iteration
  /\ pc' = "while"
  /\ UNCHANGED << env, installed, iteration, todo, dependency_issue_packages,
                  rev_deps_trail_packages, combined_list_to_upgrade,
                  packages_to_check_next_iteration, upgrade_history, pkg_spec,
                  previous_version, iter_log, attempt, call, result, wrapper_vars >>

\* A variant of the else branch that records the failed attempt.
HistoryRecordsFailure(history, pkg_name, prev) ==
  [history EXCEPT ![pkg_name] =
     [previous_version |-> prev, upgraded_version |-> InstallationFailedStr]]

\* The else branch of `if install_package(pkg_spec)`: the failure is logged.
history_after_failure(history, pkg_name, prev) == history

\* install_package(pkg_spec) returns False: pip left the environment as it was.
InstallFails ==
  /\ pc = "install"
  /\ attempt' = [name |-> pkg_spec.name,
                 before |-> installed[pkg_spec.name],
                 after |-> installed[pkg_spec.name], ok |-> FALSE]
  /\ iter_log' = [iter_log EXCEPT !.install = @ + 1, !.failed = @ + 1]
  /\ upgrade_history' = history_after_failure(upgrade_history, pkg_spec.name, previous_version)
  /\ pkg_spec' = NoPin
  /\ previous_version' = None
  /\ pc' = "for"
  /\ UNCHANGED << env, installed, iteration, packages_to_check, todo,
                  dependency_issue_packages, rev_deps_trail_packages,
                  combined_list_to_upgrade, packages_to_check_next_iteration,
                  call, result, wrapper_vars >>

\* install_package(pkg_spec) returns True: the pinned version is installed,
\* no other package is touched (--no-deps).
InstallSucceeds ==
  /\ pc = "install"
  /\ installed' = [installed EXCEPT ![pkg_spec.name] = pkg_spec.version]
  /\ attempt' = [name |-> pkg_spec.name,
                 before |-> installed[pkg_spec.name],
                 after |-> pkg_spec.version, ok |-> TRUE]
  /\ iter_log' = [iter_log EXCEPT
                    !.install = @ + 1,
                    !.changed = IF installed[pkg_spec.name] # pkg_spec.version
                                THEN @ \cup {pkg_spec.name} ELSE @]
  /\ pc' = "record"
  /\ UNCHANGED << env, iteration, packages_to_check, todo,
                  dependency_issue_packages, rev_deps_trail_packages,
                  combined_list_to_upgrade, packages_to_check_next_iteration,
                  upgrade_history, pkg_spec, previous_version, call, result, wrapper_vars >>

\* A variant of the probe after the install that finds nothing.
ProbeNewFindsNothing(inst, pkg_name) == InstallationFailedStr

\* new_version = get_installed_version(pkg_name) or "Installation failed"
probe_new(inst, pkg_name) == Or(get_installed_version(inst, pkg_name), InstallationFailedStr)

\* A variant that adds every installed package to the next frontier.
NextIterationAlways(next, pkg_name, prev, new) == next \cup {pkg_name}

\* `if previous_version != new_version: packages_to_check_next_iteration.add(pkg_name)`
next_iteration_after(next, pkg_name, prev, new) ==
  IF prev # new THEN next \cup {pkg_name} ELSE next

\* The success branch: probe, record in upgrade_history, extend the next
\* frontier.
Record ==
  /\ pc = "record"
  /\ LET new_version == probe_new(installed, pkg_spec.name) IN
       /\ upgrade_history' = [upgrade_history EXCEPT ![pkg_spec.name] =
              [previous_version |-> previous_version, upgraded_version |-> new_version]]
       /\ packages_to_check_next_iteration' =
            next_iteration_after(packages_to_check_next_iteration, pkg_spec.name,
                                 previous_version, new_version)
  /\ pkg_spec' = NoPin
  /\ previous_version' = None
  /\ pc' = "for"
  /\ UNCHANGED << env, installed, iteration, packages_to_check, todo,
                  dependency_issue_packages, rev_deps_trail_packages,
                  combined_list_to_upgrade, iter_log, attempt, call, result, wrapper_vars >>

Next ==
  \/ WhileEnter
  \/ WhileExit
  \/ Step1
  \/ Step2
  \/ Combine
  \/ ForNext
  \/ ForExit
  \/ InstallFails
  \/ InstallSucceeds
  \/ Record

Spec == Init /\ [][Next]_vars

\* The engine is one sequential process: it takes its next step whenever it
\* has one.
FairSpec == Spec /\ WF_vars(Next)


\* ------------------------------------------------- component specification
\* The resolvers and the trail selector are scripts run on their own: each
\* behaviour of QuerySpec is one run of one of them on inputs drawn from the
\* bounded sets below.
QuerySpecs == {AnySpec, EmptySpec, InvalidSpec} \cup {SetSpec(S) : S \in SUBSET Versions}
Listings == SUBSET (Versions \cup {BadVer})
QueryFiles == [1..NumFiles -> [{"b"} -> Versions \cup {None, BadVer}]]
\* The lines of two dependents, "b" and "c", each absent or present with a
\* bare or a specified constraint.
QueryLines(dependent) ==
  {[dependent_package |-> [name |-> dependent, version |-> v],
    bare |-> bare, same_name |-> same, spec |-> spec] :
      v \in {1}, bare \in BOOLEAN, same \in BOOLEAN,
      spec \in {InvalidSpec} \cup {SetSpec(S) : S \in SUBSET Versions}}

AtMostOne(S) == {{}} \cup {{x} : x \in S}

NoEnv == [requires |-> << >>, pypi |-> << >>, req_files |-> << >>]

QueryInit ==
  /\ env = NoEnv
  /\ installed = [p \in Pkgs |-> None]
  /\ packages_to_check = {}
  /\ pc = "query"
  /\ iteration = 0
  /\ todo = {}
  /\ dependency_issue_packages = {}
  /\ rev_deps_trail_packages = {}
  /\ combined_list_to_upgrade = {}
  /\ packages_to_check_next_iteration = {}
  /\ upgrade_history = [p \in Pkgs |-> NoEntry]
  /\ pkg_spec = NoPin
  /\ previous_version = None
  /\ iter_log = NoLog
  /\ attempt = NoAttempt
  /\ call = NoCall
  /\ result = {}
  /\ NoWrapper

\* python3 dependency_resolver_final.py <package>, the package having one
\* declared dependency, "b".
RunForward ==
  /\ call = NoCall
  /\ \E found \in BOOLEAN, iv \in Versions \cup {None}, rs \in QuerySpecs,
        listing \in Listings, files \in QueryFiles :
       LET dep == [package_name |-> "b", installed_version |-> iv,
                   required_version |-> rs] IN
       /\ call' = [op |-> "forward", found |-> found, dep |-> dep,
                   listing |-> listing, files |-> files]
       /\ result' = dependency_resolver_final(found, {dep}, [d \in {"b"} |-> listing], files)
  /\ UNCHANGED << engine_vars, wrapper_vars >>

\* python3 get_version_for_rev_dependendencies.py <package> <version>
\*   --first --latest --trail
RunTrail ==
  /\ call = NoCall
  /\ \E listing \in Listings, input_version \in (0..MaxVer) \cup {BadVer} :
       /\ call' = [op |-> "trail", listing |-> listing, input_version |-> input_version]
       /\ result' = trail_main(listing, input_version)
  /\ UNCHANGED << engine_vars, wrapper_vars >>

\* python3 rev_dependency_resolver_final.py <package>
RunReverse ==
  /\ call = NoCall
  /\ \E current_version \in Versions \cup {None},
        lb \in AtMostOne(QueryLines("b")), lc \in AtMostOne(QueryLines("c")) :
       /\ call' = [op |-> "reverse", current_version |-> current_version,
                   lines |-> lb \cup lc]
       /\ result' = rev_dependency_resolver_final(current_version, lb \cup lc)
  /\ UNCHANGED << engine_vars, wrapper_vars >>

\* get_available_versions(package_name) of both scripts on one output of
\* `pip3 index versions`: the list each returns, and whether the call of the
\* forward resolver's copy raised InvalidVersion instead of returning.
RunVersions ==
  /\ call = NoCall
  /\ \E listing \in Listings :
       /\ call' = [op |-> "versions", listing |-> listing]
       /\ result' = [raised |-> fwd_versions_raises(listing),
                     forward |-> IF fwd_versions_raises(listing) THEN << >>
                                 ELSE fwd_get_available_versions(listing),
                     trail |-> trail_get_available_versions(listing)]
  /\ UNCHANGED << engine_vars, wrapper_vars >>

QueryNext == RunForward \/ RunTrail \/ RunReverse \/ RunVersions

QuerySpec == QueryInit /\ [][QueryNext]_vars

\* ----------------------------------------------------- store specification
\* The manifest store and the task-manifest editor are command lines of their
\* own: each behaviour of StoreSpec is one `set` on a requirement manifest,
\* followed by a `get` of the same name on the file the `set` left, or one
\* `max` over the configured manifests, or one `set` on a task manifest.
ReqLines ==
  {BlankLine, CommentLine, TextLine}
    \cup {PinLine(n, v, i, t) : n \in Names, v \in Versions, i \in BOOLEAN, t \in BOOLEAN}
    \cup {MultiLine(n, v) : n \in Names, v \in Versions}
\* The lines as read_requirements() tells them apart, with one pin of the
\* other package.
ReadLines ==
  {TextLine, PinLine("six", 1, FALSE, FALSE)}
    \cup {PinLine(n, v, FALSE, t) : n \in {"flask", "Flask"}, v \in Versions, t \in BOOLEAN}
    \cup {MultiLine(n, 1) : n \in Names}
TaskLines ==
  {OtherLine}
    \cup {TaskLine(sh, n, v, sf) : sh \in {"list", "single"}, n \in Names,
                                   v \in Versions, sf \in BOOLEAN}
SeqsUpTo(S, n) == UNION {[1..k -> S] : k \in 0..n}

\* python3 get_normal_max_versions.py set <package_name> <new_version> <file>
RunSet ==
  /\ call = NoCall
  /\ \E lines \in SeqsUpTo(ReqLines, MaxLines), package_name \in Names,
        new_version \in Versions :
       LET r == update_package_version_in_file(lines, package_name, new_version) IN
       /\ call' = [op |-> "set", lines |-> lines, package_name |-> package_name,
                   new_version |-> new_version]
       /\ result' = [lines |-> r.lines, updated |-> r.updated, version |-> None]
  /\ UNCHANGED << engine_vars, wrapper_vars >>

\* python3 get_normal_max_versions.py get <package_name> <file>, on the file
\* the set left.
RunGet ==
  /\ call.op = "set"
  /\ call' = [call EXCEPT !.op = "set_get"]
  /\ result' = [result EXCEPT !.version = get_package_version(result.lines, call.package_name)]
  /\ UNCHANGED << engine_vars, wrapper_vars >>

\* python3 get_normal_max_versions.py max <package_name>
RunMax ==
  /\ call = NoCall
  /\ \E files \in [1..NumFiles -> SeqsUpTo(ReadLines, MaxLines)], package_name \in Names :
       /\ call' = [op |-> "max", files |-> files, package_name |-> package_name]
       /\ result' = max_action(files, package_name)
  /\ UNCHANGED << engine_vars, wrapper_vars >>

\* python3 extract_install_pip_apt_from_yml.py set <pkg_name> <new_version> <file>
RunTaskSet ==
  /\ call = NoCall
  /\ \E lines \in SeqsUpTo(TaskLines, MaxLines), pkg_name \in Names,
        new_version \in Versions :
       /\ call' = [op |-> "task_set", lines |-> lines, pkg_name |-> pkg_name,
                   new_version |-> new_version]
       /\ result' = set_package_version(pkg_name, new_version, lines)
  /\ UNCHANGED << engine_vars, wrapper_vars >>

StoreNext == RunSet \/ RunGet \/ RunMax \/ RunTaskSet

StoreSpec == QueryInit /\ [][StoreNext]_vars

\* ---------------------------------------------------------------- wrapper
\* wrapper.py: the pins of the command line are raised to the manifest
\* maximum, pre-installed, the engine is run and its upgrade history read
\* back, the targets without an entry are merged into the history, and the
\* history is applied to every configured requirement manifest.
\* packages_to_update = [pkg.split('==')[0] for pkg in input_packages]
packages_to_update(pins) == [i \in 1..Len(pins) |-> pins[i].name]

\* `if '==' in pkg: input_packages.append(pkg)`, otherwise a warning is logged
\* and the word is left out.
valid_package_spec(pkg) == pkg.version # None
parse_input_packages(words) == SelectSeq(words, valid_package_spec)

\* `if not input_packages: ... sys.exit(1)`
after_parse(pins) == IF pins = << >> THEN "exit1" ELSE "max_check"

\* One pass of the max-version loop: the version of the pin afterwards.  The
\* `max` command exits 1 when no manifest pins the name.
max_version_check(files, pin) ==
  LET max_version_info == max_action(files, pin.name)
  IN IF max_version_info[1] # None /\ pin.version < max_version_info[1]
     THEN max_version_info[1] ELSE pin.version

\* A variant that takes the version of the first pin for every target.
DirectVersionFirst(versions, idx) == versions[1]

\* version = upgraded_versions[idx]
direct_installation_version(versions, idx) == versions[idx]

\* `for idx, pkg in enumerate(packages_to_update): if pkg not in upgrade_history`
RECURSIVE MergeFrom(_, _, _, _)
MergeFrom(names, versions, idx, history) ==
  IF idx > Len(names) THEN history
  ELSE MergeFrom(names, versions, idx + 1,
         IF history[names[idx]] = NoEntry
         THEN [history EXCEPT ![names[idx]] =
                 [previous_version |-> DirectInstallationStr,
                  upgraded_version |-> direct_installation_version(versions, idx)]]
         ELSE history)

\* Whether the update loop runs the `set` command for an entry of the
\* history on a manifest: the entry is an upgrade, `get` finds the name, and
\* the version it prints is below the upgraded version.  A string Version()
\* rejects raises into the except, which only logs.
runs_set(lines, pkg_name, versions) ==
  /\ versions.previous_version # versions.upgraded_version
  /\ LET current_version == get_package_version(lines, pkg_name)
     IN /\ current_version # None
        /\ IsValidVersion(current_version)
        /\ IsValidVersion(versions.upgraded_version)
        /\ current_version < versions.upgraded_version

\* The command lines the wrapper is started with (call.words; call.argv is
\* the list of the words taken as pins), the manifests it finds and the
\* histories the engine hands over (at most one spelling of a package).
WrapVersions == 1..2
WrapPins == {[name |-> n, version |-> v] : n \in {"Flask", "six"}, v \in WrapVersions}
\* A word of the command line without "==", such as a bare package name.
BareWord == [name |-> "six", version |-> None]
WrapArgs == UNION {[1..k -> WrapPins \cup {BareWord}] : k \in 1..2}
WrapLines == {PinLine("flask", 1, FALSE, FALSE), PinLine("flask", 3, FALSE, FALSE)}
WrapFiles == [1..NumFiles -> SeqsUpTo(WrapLines, MaxLines)]
EngineEntries ==
  {[previous_version |-> 1, upgraded_version |-> 2],
   [previous_version |-> 2, upgraded_version |-> 2],
   [previous_version |-> NotInstalledStr, upgraded_version |-> 3],
   [previous_version |-> 1, upgraded_version |-> InstallationFailedStr]}
EngineHistories ==
  {h \in [Names -> EngineEntries \cup {NoEntry}] :
     /\ (h["flask"] = NoEntry \/ h["Flask"] = NoEntry)
     /\ h["six"] \in {NoEntry, [previous_version |-> 1, upgraded_version |-> 2]}}
\* config['yml_files']: one task manifest, with a pin of each package or
\* without a pin.
WrapTaskFiles ==
  {<< << TaskLine("list", "Flask", 1, TRUE), TaskLine("single", "six", 2, FALSE) >> >>,
   << << OtherLine >> >>}
\* upgrade_history = {}
NoHistory == [n \in Names |-> NoEntry]
\* The upgrade_history.json an earlier run left in the working directory:
\* the wrapper never removes the file (os.remove is commented out).
StaleFile ==
  [exists |-> TRUE,
   history |-> [NoHistory EXCEPT !["six"] = [previous_version |-> 1, upgraded_version |-> 3]],
   written |-> FALSE]

engine_rest == << env, installed, iteration, packages_to_check,
                  dependency_issue_packages, rev_deps_trail_packages,
                  combined_list_to_upgrade, packages_to_check_next_iteration,
                  pkg_spec, previous_version, iter_log, attempt >>

WrapperInit ==
  /\ env = NoEnv
  /\ installed = [p \in Pkgs |-> None]
  /\ packages_to_check = {}
  /\ iteration = 0
  /\ todo = {}
  /\ dependency_issue_packages = {}
  /\ rev_deps_trail_packages = {}
  /\ combined_list_to_upgrade = {}
  /\ packages_to_check_next_iteration = {}
  /\ pkg_spec = NoPin
  /\ previous_version = None
  /\ iter_log = NoLog
  /\ attempt = NoAttempt
  /\ result = {}
  /\ \E words \in WrapArgs, skip \in BOOLEAN :
       LET argv == parse_input_packages(words) IN
       /\ call = [op |-> "wrapper", words |-> words, argv |-> argv,
                  skip_max_version_check |-> skip]
       /\ input_packages = argv
       /\ upgraded_versions = [i \in 1..Len(argv) |-> argv[i].version]
       /\ package_specs = argv
       /\ pc = after_parse(argv)
  /\ requirement_files \in WrapFiles
  /\ upgrade_history = NoHistory
  /\ req_file = 0
  /\ set_log = NoSet
  /\ handoff_file \in {NoFile, StaleFile}
  /\ yml_files \in WrapTaskFiles

\* `if not skip_max_version_check:` and the loop under it.
MaxVersionCheck ==
  /\ pc = "max_check"
  /\ IF call.skip_max_version_check
     THEN UNCHANGED << input_packages, upgraded_versions, package_specs >>
     ELSE /\ upgraded_versions' =
               [i \in 1..Len(input_packages) |->
                  max_version_check(requirement_files, input_packages[i])]
          /\ input_packages' =
               [i \in 1..Len(input_packages) |->
                  [name |-> input_packages[i].name, version |-> upgraded_versions'[i]]]
          /\ package_specs' = input_packages'
  /\ pc' = "install"
  /\ UNCHANGED << engine_rest, todo, upgrade_history, call, result,
                  requirement_files, req_file, set_log, handoff_file, yml_files >>

\* `if os.path.exists('upgrade_history.json')`: the history the wrapper goes
\* on with, {} when the file is missing.
read_upgrade_history(file) == IF file.exists THEN file.history ELSE NoHistory

\* The pre-install of package_specs, the run of the engine, and the read of
\* upgrade_history.json.  The engine writes the file when main() returns;
\* when it ends in its except branch (exit 1), or the command does not start,
\* nothing is written, and run_in_venv only logs the return code.
RunEngine ==
  /\ pc = "install"
  /\ \/ \E h \in EngineHistories :
          handoff_file' = [exists |-> TRUE, history |-> h, written |-> TRUE]
     \/ handoff_file' = handoff_file
  /\ upgrade_history' = read_upgrade_history(handoff_file')
  /\ pc' = "merge"
  /\ UNCHANGED << engine_rest, todo, call, result, input_packages,
                  upgraded_versions, package_specs, requirement_files, req_file,
                  set_log, yml_files >>

\* "Add input packages to upgrade history if they're not already there".
Merge ==
  /\ pc = "merge"
  /\ upgrade_history' = MergeFrom(packages_to_update(input_packages),
                                  upgraded_versions, 1, upgrade_history)
  /\ pc' = "reflect"
  /\ req_file' = 1
  /\ todo' = {n \in Names : upgrade_history'[n] # NoEntry}
  /\ UNCHANGED << engine_rest, call, result, input_packages, upgraded_versions,
                  package_specs, requirement_files, set_log, handoff_file,
                  yml_files >>

\* One pass of `for pkg_name, versions in upgrade_history.items()` on the
\* manifest req_file.
ReflectEntry ==
  /\ pc = "reflect"
  /\ \E pkg_name \in todo :
       LET lines == requirement_files[req_file]
           versions == upgrade_history[pkg_name]
           r == update_package_version_in_file(lines, pkg_name, versions.upgraded_version)
       IN /\ todo' = todo \ {pkg_name}
          /\ IF runs_set(lines, pkg_name, versions)
             THEN /\ requirement_files' = [requirement_files EXCEPT ![req_file] = r.lines]
                  /\ set_log' = [file |-> req_file, name |-> pkg_name,
                                 new_version |-> versions.upgraded_version,
                                 before |-> lines, after |-> r.lines]
             ELSE UNCHANGED << requirement_files, set_log >>
  /\ UNCHANGED << engine_rest, pc, upgrade_history, call, result, input_packages,
                  upgraded_versions, package_specs, req_file, handoff_file,
                  yml_files >>

\* The end of the pass over a manifest: on to the next one, or on to the
\* task manifests.
ReflectFileDone ==
  /\ pc = "reflect"
  /\ todo = {}
  /\ IF req_file < Len(requirement_files)
     THEN /\ req_file' = req_file + 1
          /\ pc' = "reflect"
     ELSE /\ pc' = "yaml"
          /\ UNCHANGED req_file
  /\ todo' = {n \in Names : upgrade_history[n] # NoEntry}
  /\ UNCHANGED << engine_rest, upgrade_history, call, result, input_packages,
                  upgraded_versions, package_specs, requirement_files, set_log,
                  handoff_file, yml_files >>

\* Whether the YAML update loop runs the `set` command of the task-manifest
\* editor for an entry: `if previous_version == upgraded_version: continue`
\* is its only test.
runs_task_set(versions) == versions.previous_version # versions.upgraded_version

\* One pass of `for pkg_name, versions in upgrade_history.items()` on the
\* task manifest.
ReflectTask ==
  /\ pc = "yaml"
  /\ \E pkg_name \in todo :
       LET versions == upgrade_history[pkg_name]
           r == set_package_version(pkg_name, versions.upgraded_version, yml_files[1])
       IN /\ todo' = todo \ {pkg_name}
          /\ yml_files' = IF runs_task_set(versions)
                          THEN [yml_files EXCEPT ![1] = r.lines] ELSE yml_files
  /\ UNCHANGED << engine_rest, pc, upgrade_history, call, result, input_packages,
                  upgraded_versions, package_specs, requirement_files, req_file,
                  set_log, handoff_file >>

\* The end of the YAML update loop; the final listing changes nothing.
ReflectTaskDone ==
  /\ pc = "yaml"
  /\ todo = {}
  /\ pc' = "end"
  /\ UNCHANGED << engine_rest, todo, upgrade_history, call, result, wrapper_vars >>

WrapperNext ==
  \/ MaxVersionCheck
  \/ RunEngine
  \/ Merge
  \/ ReflectEntry
  \/ ReflectFileDone
  \/ ReflectTask
  \/ ReflectTaskDone

WrapperSpec == WrapperInit /\ [][WrapperNext]_vars

\* ------------------------------------------------- claims on the resolvers
ForwardCall == call.op = "forward"
\* The forward dependency of the call is violated: it has an installed
\* version, a parsed non-empty specifier, and the version is not in it.
CallDepViolated ==
  /\ call.found
  /\ call.dep.installed_version # None
  /\ call.dep.required_version.kind = "set"
  /\ call.dep.installed_version \notin call.dep.required_version.vs

\* py_v: the lowest valid index version the specifier contains, None if none.
CallPyV ==
  LET ok == {v \in call.listing : IsValidVersion(v) /\ v \in call.dep.required_version.vs}
  IN IF ok = {} THEN None ELSE SetMin(ok)

\* req_v: the greatest valid pin of the dependency across the manifests.
CallReqV ==
  LET pins == {v \in {call.files[i][call.dep.package_name] : i \in 1..NumFiles} :
                 v # None /\ IsValidVersion(v)}
  IN IF pins = {} THEN None ELSE SetMax(pins)

\* C5: the forward resolver emits a pin for a dependency only if the
\* dependency has an installed version, its specifier is neither empty nor
\* "any", and the installed version does not satisfy the specifier; in every
\* other case it emits nothing.
C5_RepairOnlyForViolated ==
  ForwardCall =>
    \A pin \in result :
      /\ pin.name = call.dep.package_name
      /\ call.dep.installed_version # None
      /\ ~(call.dep.required_version.kind \in {"any", "empty"})
      /\ call.dep.required_version.kind = "set"
      /\ call.dep.installed_version \notin call.dep.required_version.vs

\* A pin was emitted for a violated dependency.
C5_Witness == ForwardCall /\ result # {} /\ CallDepViolated

\* C6 (as claimed): for a violated dependency the resolver emits exactly the
\* pin max(py_v, req_v) when both exist, req_v when only req_v exists, py_v
\* when only py_v exists, and nothing when neither exists.
C6_ChosenIsMax ==
  (ForwardCall /\ CallDepViolated) =>
    result = IF CallPyV = None /\ CallReqV = None THEN {}
             ELSE {[name |-> call.dep.package_name,
                    version |-> IF CallPyV = None THEN CallReqV
                                ELSE IF CallReqV = None THEN CallPyV
                                ELSE IF CallReqV > CallPyV THEN CallReqV ELSE CallPyV]}

\* C7 (as claimed): every emitted pin satisfies the violated specifier and is
\* not lower than the manifest pin req_v when there is one.
C7_PinSatisfiesSpecifier ==
  ForwardCall =>
    \A pin \in result :
      /\ Contains(call.dep.required_version, pin.version)
      /\ (CallReqV # None => pin.version >= CallReqV)

\* C7 (amended): every emitted pin is not lower than the manifest pin req_v
\* when there is one and not lower than py_v when there is one, and it
\* satisfies the violated specifier unless it is the manifest pin itself,
\* chosen because it is above py_v or because no index version satisfies the
\* specifier.
C7_PinAtLeastManifest ==
  ForwardCall =>
    \A pin \in result :
      /\ (CallReqV # None => pin.version >= CallReqV)
      /\ (CallPyV # None => pin.version >= CallPyV)
      /\ \/ Contains(call.dep.required_version, pin.version)
         \/ /\ pin.version = CallReqV
            /\ (CallPyV = None \/ CallReqV > CallPyV)

\* A pin was emitted that is the manifest pin and lies outside the specifier.
C7_Witness ==
  /\ ForwardCall
  /\ \E pin \in result : /\ pin.version = CallReqV
                         /\ CallPyV # None
                         /\ ~Contains(call.dep.required_version, pin.version)

TrailCall == call.op = "trail" /\ IsValidVersion(call.input_version)
\* A: the valid index versions; H: those above the reference version.
TrailA == {v \in call.listing : IsValidVersion(v)}
TrailH == {v \in TrailA : v > call.input_version}
\* The 0-based index of v in the ascending list of A, and the element there.
IndexInA(v) == Cardinality({x \in TrailA : x < v})
ElementOfA(i) == CHOOSE v \in TrailA : IndexInA(v) = i

\* C8: the trail selector prints nothing when H is empty; otherwise first is
\* the least and latest the greatest element of H, and trail is the element
\* of A at index (i_first + i_latest) div 2; when H has one element the three
\* are equal.
C8_TrailMidpoint ==
  TrailCall =>
    IF TrailH = {} THEN ~result.printed
    ELSE /\ result.printed
         /\ result.first = SetMin(TrailH)
         /\ result.latest = SetMax(TrailH)
         /\ result.trail =
              ElementOfA((IndexInA(SetMin(TrailH)) + IndexInA(SetMax(TrailH))) \div 2)
         /\ (Cardinality(TrailH) = 1 =>
               result.first = result.latest /\ result.latest = result.trail)

\* Two higher versions above a version of A that is not higher, which shifts
\* the indices: the midpoint rounds down to the first higher version.
C8_Witness ==
  /\ TrailCall
  /\ result.printed
  /\ TrailA # TrailH
  /\ result.first < result.latest
  /\ result.trail = result.first

ReverseCall == call.op = "reverse" /\ call.current_version # None

\* C9: the reverse resolver emits exactly the names of the dependents whose
\* constraint on the target carries a specifier that the target's installed
\* version does not satisfy; a bare or a satisfied constraint emits nothing.
C9_ReverseEmitsViolated ==
  ReverseCall =>
    result = {l.dependent_package.name :
                l \in {x \in call.lines : /\ ~x.bare
                                         /\ x.spec.kind = "set"
                                         /\ call.current_version \notin x.spec.vs}}

\* One dependent is emitted while another, with a bare constraint spelled
\* differently from the argument, is not.
C9_Witness ==
  /\ ReverseCall
  /\ result # {}
  /\ \E l \in call.lines : l.bare /\ ~l.same_name /\ l.dependent_package.name \notin result

\* ---------------------------------------------------- claims on the engine
\* C1: the loop terminates and its iteration counter never exceeds
\* MAX_ITERATIONS, whatever candidates the iterations produce.
C1_TerminatesWithinBound ==
  /\ [](iteration <= MAX_ITERATIONS)
  /\ <>(pc = "done")

\* The loop is cut by the bound: ten iterations done, the frontier not empty.
C1_Witness ==
  /\ pc = "done"
  /\ iteration = MAX_ITERATIONS
  /\ packages_to_check # {}

\* The install loop of an iteration has just ended: the next frontier is set.
IterationEnded == pc = "while" /\ iteration > 0

InstallJustFailed == pc = "for" /\ attempt.name # "" /\ ~attempt.ok

C4_EntryBracketsInstall ==
  [][\A p \in Pkgs :
       upgrade_history'[p] # upgrade_history[p] =>
         /\ attempt.name = p
         /\ attempt.ok
         /\ upgrade_history'[p].previous_version = Or(attempt.before, NotInstalledStr)
         /\ upgrade_history'[p].upgraded_version = Or(attempt.after, InstallationFailedStr)
         /\ installed[p] = attempt.after]_vars

\* An entry of a package whose version the install changed.
C4_Witness ==
  \E p \in Pkgs :
    /\ upgrade_history[p] # NoEntry
    /\ upgrade_history[p].previous_version # upgrade_history[p].upgraded_version
    /\ upgrade_history[p].upgraded_version = installed[p]

InIteration == pc \in {"step1", "step2", "combine", "for", "install", "record"}

\* C10: within an iteration (a) every forward computation of the frontier is
\* finished before a reverse computation starts, (b) every repair, trail
\* queries included, is computed before the first install is issued, and no
\* candidate is left without a version for the install loop to query, and
\* (c) installs are issued one at a time, each probe reading the environment
\* as the earlier installs left it.
C10_PhasesInOrder ==
  InIteration =>
    /\ (iter_log.rev > 0 => iter_log.fwd = Cardinality(packages_to_check))
    /\ (iter_log.install > 0 =>
          /\ iter_log.fwd = Cardinality(packages_to_check)
          /\ iter_log.rev = Cardinality(packages_to_check)
          /\ combined_list_to_upgrade =
               dependency_issue_packages \cup rev_deps_trail_packages)
    /\ (pc \in {"for", "install", "record"} =>
          \A c \in combined_list_to_upgrade : c.version # None)
    /\ (pc = "install" =>
          previous_version = Or(installed[pkg_spec.name], NotInstalledStr))
    /\ (pc = "record" =>
          /\ attempt.name = pkg_spec.name
          /\ installed[pkg_spec.name] = pkg_spec.version)

\* The second install of an iteration over a frontier of two packages is
\* about to be issued, after a first one that changed the environment.
C10_Witness ==
  /\ pc = "install"
  /\ iter_log.install > 0
  /\ iter_log.changed # {}
  /\ Cardinality(packages_to_check) = 2

\* No constraint around the frontier is broken: no forward dependency of a
\* package of the frontier is installed at a version outside its specifier,
\* and no installed dependent declares a specifier on a package of the
\* frontier that the package's installed version is outside of.
ForwardSatisfied(t) ==
  installed[t] # None =>
    \A d \in Pkgs :
      LET spec == env.requires[t][installed[t]][d]
      IN (spec # NoDep /\ installed[d] # None) => Contains(spec, installed[d])

ReverseSatisfied(t) ==
  installed[t] # None =>
    \A q \in Pkgs :
      installed[q] # None =>
        LET spec == env.requires[q][installed[q]][t]
        IN spec # NoDep => Contains(spec, installed[t])

AllSatisfied == \A t \in packages_to_check : ForwardSatisfied(t) /\ ReverseSatisfied(t)

\* C11: when the engine starts with every forward dependency of every
\* target and every reverse dependent's constraint on every target
\* satisfied, it issues no install, leaves the upgrade history empty and
\* exits in its first iteration.
C11_NoOpWhenSatisfied ==
  AllSatisfied =>
    /\ [](/\ iter_log.install = 0
          /\ pc \in {"while", "step1", "step2", "combine", "done"}
          /\ iteration <= 1
          /\ upgrade_history = [p \in Pkgs |-> NoEntry])
    /\ <>(pc = "done" /\ iteration = 1)

\* The engine left its first iteration without an install although a target
\* has a forward dependency with a specifier and a dependent with one.
C11_Witness ==
  /\ pc = "done"
  /\ iteration = 1
  /\ iter_log.install = 0
  /\ AllSatisfied
  /\ \E t \in packages_to_check, d \in Pkgs :
       /\ installed[t] # None
       /\ installed[d] # None
       /\ env.requires[t][installed[t]][d] # NoDep
       /\ env.requires[d][installed[d]][t] # NoDep

\* The install loop of an iteration went through every candidate and every
\* install succeeded.
InstallLoopDone == pc = "for" /\ todo = {} /\ iter_log.failed = 0

\* C12 (as claimed): the order in which the candidates of an iteration are
\* processed is not observable, also when two candidates pin the same
\* package: whichever candidate is processed last, the environment ends the
\* same, so every candidate's pin is the installed version when the loop is
\* through.
C12_OrderNotObservable ==
  InstallLoopDone =>
    \A c \in combined_list_to_upgrade : installed[c.name] = c.version

\* ---------------------------------------------- claims on the manifest store
\* A pin line for n: NAME==VERSION with NAME equal to n in any letter case.
IsPinFor(line, n) == line.kind = "pin" /\ lower(line.name) = lower(n)
SetCall == call.op \in {"set", "set_get"}
SetOnPinned == SetCall /\ \E i \in 1..Len(call.lines) : IsPinFor(call.lines[i], call.package_name)

\* C16 (as claimed): for a manifest that holds a pin for n, setPin(M, n, v)
\* followed by getPin(M, n) returns v, and every line that is not a pin line
\* for n, a line with more than one "==" included, is the same before and
\* after the setPin.
C16_SetThenGet ==
  SetOnPinned =>
    /\ (call.op = "set_get" => result.version = call.new_version)
    /\ \A i \in 1..Len(call.lines) :
         ~IsPinFor(call.lines[i], call.package_name) => result.lines[i] = call.lines[i]

\* C17 (as claimed): setPin changes at most one line, the changed line is a
\* pin line for the name and keeps the name as written, its surrounding
\* whitespace and its trailing comment, and only the version is new.
C17_RewriteInPlace ==
  SetCall =>
    /\ Cardinality({i \in 1..Len(call.lines) : result.lines[i] # call.lines[i]}) <= 1
    /\ \A i \in 1..Len(call.lines) :
         \/ result.lines[i] = call.lines[i]
         \/ /\ IsPinFor(call.lines[i], call.package_name)
            /\ result.lines[i] = [call.lines[i] EXCEPT !.version = call.new_version]

\* The valid versions on the pin lines for n of manifest number i.
PinsFor(files, i, n) ==
  {files[i][k].version : k \in {j \in 1..Len(files[i]) : IsPinFor(files[i][j], n)}}
AllPinsFor(files, n) == UNION {PinsFor(files, i, n) : i \in 1..Len(files)}

\* C18 (as claimed): maxPinAcross(name) is NotFound when no manifest pins
\* name; otherwise it is the largest version on the pin lines for name of
\* all manifests, with the first manifest in configuration order that holds
\* that version.
C18_MaxPinAcross ==
  call.op = "max" =>
    LET pins == AllPinsFor(call.files, call.package_name) IN
    IF pins = {} THEN result = << None, None >>
    ELSE result = << SetMax(pins),
                     SetMin({i \in 1..Len(call.files) :
                               SetMax(pins) \in PinsFor(call.files, i, call.package_name)}) >>

\* ------------------------------------- claims on the task-manifest editor
TaskCall == call.op = "task_set"
\* The LIST_ITEM and SINGLE_ITEM occurrences of the name, by line number.
Occurrences == {i \in 1..Len(call.lines) : regex_match(call.lines[i], call.pkg_name)}
OccurrencesToChange == {i \in Occurrences : call.lines[i].version # call.new_version}

\* C19: the task-manifest setPin returns "updated" exactly when an
\* occurrence of the name has another version than v, and then every such
\* line is rewritten to v and nothing else changes; "unchanged" exactly when
\* the name occurs and every occurrence is at v; "not_found" exactly when
\* the name does not occur; the file is written only when it is updated.
C19_TaskSetStatus ==
  TaskCall =>
    /\ result.status = (IF OccurrencesToChange # {} THEN "updated"
                        ELSE IF Occurrences # {} THEN "unchanged" ELSE "not_found")
    /\ result.written = (result.status = "updated")
    /\ result.lines = [i \in 1..Len(call.lines) |->
                         IF i \in OccurrencesToChange
                         THEN [call.lines[i] EXCEPT !.version = call.new_version]
                         ELSE call.lines[i]]

\* An update that rewrites one occurrence, written in another letter case
\* than the argument, and leaves an occurrence already at v alone.
C19_Witness ==
  /\ TaskCall
  /\ result.status = "updated"
  /\ Cardinality(Occurrences) = 2
  /\ Cardinality(OccurrencesToChange) = 1
  /\ \E i \in OccurrencesToChange : /\ call.lines[i].name # call.pkg_name
                                     /\ result.lines[i].name = call.lines[i].name

\* C20 (as claimed): the old_version of an "updated" result is the version
\* on the first matching line of the file as it was before the rewrite.
C20_OldVersionOfFirstMatch ==
  (TaskCall /\ result.status = "updated") =>
    result.old_version = call.lines[SetMin(Occurrences)].version

\* ------------------------------------------------- claims on the wrapper
\* The canonical form of a name: letter case folded.
CanonicalName(name) == IF name \in {"flask", "Flask"} THEN "flask" ELSE name
Merged == pc \in {"reflect", "end"}

\* C13 (as claimed): after a run the history, engine records and merged
\* targets together, holds at most one entry per canonical package name: a
\* target the engine recorded under another spelling is not merged again.
C13_OneEntryPerCanonicalName ==
  Merged =>
    \A n1, n2 \in Names :
      (/\ upgrade_history[n1] # NoEntry
       /\ upgrade_history[n2] # NoEntry
       /\ CanonicalName(n1) = CanonicalName(n2)) => n1 = n2

\* C14 (as claimed): a `set` of the reflector happens only for an entry with
\* new # previous on a manifest that pins the name below new, and it lowers
\* no pin of the manifest and adds none.
C14_ReflectionNeverLowers ==
  set_log # NoSet =>
    /\ upgrade_history[set_log.name].previous_version # set_log.new_version
    /\ \E i \in 1..Len(set_log.before) :
         /\ IsPinFor(set_log.before[i], set_log.name)
         /\ set_log.before[i].version < set_log.new_version
    /\ Len(set_log.after) = Len(set_log.before)
    /\ \A i \in 1..Len(set_log.before) :
         IF set_log.before[i].kind = "pin"
         THEN /\ set_log.after[i].kind = "pin"
              /\ set_log.after[i].name = set_log.before[i].name
              /\ set_log.after[i].version >= set_log.before[i].version
         ELSE set_log.after[i] = set_log.before[i]

\* The first pin of a name on the command line, by position.
FirstPinOf(n) == SetMin({i \in 1..Len(call.argv) : call.argv[i].name = n})
Targets == {call.argv[i].name : i \in 1..Len(call.argv)}
\* The version the wrapper pre-installs for the pin at position i: the
\* version given, raised to the maximum the `max` command reports unless the
\* check is skipped.
PreInstalled(i) ==
  LET m == max_action(requirement_files, call.argv[i].name)[1]
  IN IF ~call.skip_max_version_check /\ m # None /\ m > call.argv[i].version
     THEN m ELSE call.argv[i].version

\* C15: the merge after the engine adds, for every target without an entry
\* in the history, the entry ("Direct installation", pin version), the pin
\* version being the one pre-installed, after the max-version bump; it
\* keeps every entry of the engine unchanged and adds nothing else.
C15_DirectInstallationMerged ==
  [][pc = "merge" =>
       \A n \in Names :
         IF upgrade_history[n] # NoEntry THEN upgrade_history'[n] = upgrade_history[n]
         ELSE IF n \in Targets
         THEN /\ upgrade_history'[n] =
                   [previous_version |-> DirectInstallationStr,
                    upgraded_version |-> PreInstalled(FirstPinOf(n))]
              /\ package_specs[FirstPinOf(n)] =
                   [name |-> n, version |-> PreInstalled(FirstPinOf(n))]
         ELSE upgrade_history'[n] = NoEntry]_vars

\* Two targets: the second one merged at a version the max-version check
\* raised, different from the first pin's, the other one keeping the entry
\* of the engine.
C15_Witness ==
  /\ Merged
  /\ Len(call.argv) = 2
  /\ \E n \in Targets :
       /\ upgrade_history[n].previous_version = DirectInstallationStr
       /\ upgrade_history[n].upgraded_version # call.argv[FirstPinOf(n)].version
       /\ upgrade_history[n].upgraded_version # upgraded_versions[1]
  /\ \E n \in Targets :
       /\ upgrade_history[n] # NoEntry
       /\ upgrade_history[n].previous_version # DirectInstallationStr

\* C21: the task-manifest setPin matches the name in any letter case; every
\* LIST_ITEM or SINGLE_ITEM occurrence of the name at another version gets
\* the new version and keeps its prefix, the name as the file spells it and
\* the text after the version; every other line is left as it was.
C21_TaskSetKeepsText ==
  TaskCall =>
    /\ Len(result.lines) = Len(call.lines)
    /\ \A i \in 1..Len(call.lines) :
         IF /\ call.lines[i].shape \in {"list", "single"}
            /\ CanonicalName(call.lines[i].name) = CanonicalName(call.pkg_name)
         THEN /\ result.lines[i].shape = call.lines[i].shape
              /\ result.lines[i].name = call.lines[i].name
              /\ result.lines[i].suffix = call.lines[i].suffix
              /\ result.lines[i].version = call.new_version
         ELSE result.lines[i] = call.lines[i]

\* A rewritten occurrence spelled in another letter case than the argument
\* and followed by text, next to a pin of another package that is kept.
C21_Witness ==
  /\ TaskCall
  /\ Len(call.lines) = 2
  /\ \E i, j \in 1..2 :
       /\ call.lines[i].name # call.pkg_name
       /\ CanonicalName(call.lines[i].name) = CanonicalName(call.pkg_name)
       /\ call.lines[i].suffix
       /\ result.lines[i] # call.lines[i]
       /\ call.lines[j].shape = "list"
       /\ CanonicalName(call.lines[j].name) # CanonicalName(call.pkg_name)

\* The manifests are as the wrapper found them: no `set` has run yet.
ManifestsUntouched == pc \in {"install", "merge", "reflect"} /\ set_log = NoSet
\* The effective version of the pin at position i as claimed: the version
\* given, or the largest version on the pin lines of the name in all
\* manifests when that is higher and the check is not skipped.
EffectiveVersion(i) ==
  LET pins == AllPinsFor(requirement_files, call.argv[i].name)
  IN IF call.skip_max_version_check \/ pins = {} THEN call.argv[i].version
     ELSE IF SetMax(pins) > call.argv[i].version THEN SetMax(pins)
     ELSE call.argv[i].version

\* C22 (as claimed): every input pin is pre-installed at max(provided
\* version, maximum pin of its name across the manifests), at the provided
\* version under --skip-max-version-check, never below the provided version,
\* and a target merged into the history is recorded at that version.
C22_EffectiveIsMax ==
  ManifestsUntouched =>
    /\ \A i \in 1..Len(call.argv) :
         /\ package_specs[i] = [name |-> call.argv[i].name, version |-> EffectiveVersion(i)]
         /\ upgraded_versions[i] = EffectiveVersion(i)
         /\ package_specs[i].version >= call.argv[i].version
    /\ (pc = "reflect" =>
          \A n \in Targets :
            upgrade_history[n].previous_version = DirectInstallationStr =>
              upgrade_history[n].upgraded_version = EffectiveVersion(FirstPinOf(n)))

\* A word of the command line is not of the form NAME==VERSION.
MalformedWord == \E i \in 1..Len(call.words) : call.words[i].version = None

\* C23 (as claimed): a command line that holds a malformed pin makes the
\* wrapper exit with status 1 at startup, before any install, engine run or
\* manifest write, also when other words of the command line are pins.
C23_MalformedIsFatal ==
  (call.op = "wrapper" /\ MalformedWord) =>
    /\ pc = "exit1"
    /\ upgrade_history = [n \in Names |-> NoEntry]
    /\ set_log = NoSet

\* C24 (as claimed): both copies of availableVersions return the valid
\* versions of the index listing in ascending order, a malformed version
\* string is dropped without failing the call, and the two copies return the
\* same list for the same listing.
C24_VersionsSortedValid ==
  call.op = "versions" =>
    LET valid == SortAsc({v \in call.listing : IsValidVersion(v)}) IN
    /\ ~result.raised
    /\ result.forward = valid
    /\ result.trail = valid

\* C25 (as claimed): the history the wrapper goes on with after the engine
\* run is the one the engine invocation of this run wrote, and the empty
\* history when that invocation wrote none; a file left by an earlier run
\* is not consumed.
C25_HistoryOfThisRun ==
  pc = "merge" =>
    upgrade_history = IF handoff_file.written THEN handoff_file.history ELSE NoHistory

\* C26 (as claimed): when the loop of the engine has ended, every package
\* whose installed version differs from the one it had when the loop
\* started has a history entry with previous_version # upgraded_version, so
\* that no reinstall at the installed version hides a change from the
\* reflector.
C26_ChangedHasRealEntry ==
  pc = "done" =>
    \A p \in Pkgs :
      installed[p] # iter_log.loop_start[p] =>
        /\ upgrade_history[p] # NoEntry
        /\ upgrade_history[p].previous_version # upgrade_history[p].upgraded_version

\* The engine is between two candidate installs, or outside the install
\* loop: no install has been issued whose entry is not yet written.
BetweenInstalls == pc \in {"while", "step1", "step2", "combine", "for", "install", "done"}

\* C27: between candidate installs and when the loop has ended, the
\* upgraded_version of every history entry is the version installed for its
\* package (a failed install leaving the environment as it was).
C27_UpgradedIsInstalled ==
  BetweenInstalls =>
    \A p \in Pkgs :
      upgrade_history[p] # NoEntry => upgrade_history[p].upgraded_version = installed[p]

\* An install has just failed for a package that has an entry from an
\* earlier install, with candidates left.
C27_Witness ==
  /\ pc = "for"
  /\ todo # {}
  /\ attempt.name # ""
  /\ ~attempt.ok
  /\ upgrade_history[attempt.name] # NoEntry
  /\ upgrade_history[attempt.name].previous_version # upgrade_history[attempt.name].upgraded_version

\* C28 (as claimed): the reflector writes no sentinel into a manifest: after
\* a run whose history holds an "Installation failed" entry, every pin of
\* every requirement manifest and of every task manifest is still a version.
C28_NoSentinelWritten ==
  call.op = "wrapper" =>
    /\ \A f \in 1..Len(requirement_files), i \in 1..MaxLines :
         (i <= Len(requirement_files[f]) /\ requirement_files[f][i].kind = "pin") =>
           IsValidVersion(requirement_files[f][i].version)
    /\ \A f \in 1..Len(yml_files), i \in 1..MaxLines :
         (i <= Len(yml_files[f]) /\ yml_files[f][i].shape \in {"list", "single"}) =>
           IsValidVersion(yml_files[f][i].version)

\* C29, the trail selector: whenever it prints versions for a reference
\* version, reference < first <= trail <= latest and trail is one of the
\* index versions above the reference.
C29_TrailWithinHigher ==
  (TrailCall /\ result.printed) =>
    /\ call.input_version < result.first
    /\ result.first <= result.trail
    /\ result.trail <= result.latest
    /\ result.trail \in TrailH

\* C29: every reverse-repair candidate of an iteration pins its package
\* strictly above the version installed when the trail was queried (the
\* trail being a version of the index), and a successful install of such a
\* candidate changes the installed version of the package; the trail
\* selector itself prints reference < first <= trail <= latest, trail in H.
C29_TrailAboveReference ==
  /\ C29_TrailWithinHigher
  /\ InIteration =>
       /\ \A c \in rev_deps_trail_packages :
            /\ iter_log.start[c.name] # None
            /\ c.version > iter_log.start[c.name]
            /\ c.version \in env.pypi[c.name]
       /\ (pc \in {"step1", "step2", "combine"} => installed = iter_log.start)
       /\ (pc = "record" /\ pkg_spec \in rev_deps_trail_packages) =>
            /\ attempt.ok
            /\ attempt.before # attempt.after
            /\ installed[pkg_spec.name] = pkg_spec.version

\* A candidate that is a reverse repair only has just been installed, after
\* another install of the iteration, next to a forward repair, and the
\* installed version of its package changed.
C29_Witness ==
  /\ pc = "record"
  /\ pkg_spec \in rev_deps_trail_packages
  /\ pkg_spec \notin dependency_issue_packages
  /\ dependency_issue_packages # {}
  /\ iter_log.install > 1
  /\ attempt.before # attempt.after

\* C30: every candidate an iteration builds, forward repair or reverse
\* repair, has the form name==version, so the install loop never takes its
\* bare-name branch: the pin it installs is the candidate as built, no
\* candidate is skipped for want of a trail version, and every candidate
\* taken from the list has had its install issued.
C30_NoBareCandidate ==
  InIteration =>
    /\ \A c \in dependency_issue_packages \cup rev_deps_trail_packages :
         c.name \in Pkgs /\ IsValidVersion(c.version)
    /\ (pc \in {"for", "install", "record"} =>
          /\ combined_list_to_upgrade \subseteq
               dependency_issue_packages \cup rev_deps_trail_packages
          /\ todo \subseteq combined_list_to_upgrade
          /\ iter_log.install + (IF pc = "install" THEN 1 ELSE 0) =
               Cardinality(combined_list_to_upgrade \ todo))
    /\ (pc \in {"install", "record"} =>
          /\ pkg_spec \in combined_list_to_upgrade
          /\ pkg_spec \notin todo)

\* The install loop is through a list of three candidates, forward and
\* reverse repairs among them.
C30_Witness ==
  /\ pc = "for"
  /\ todo = {}
  /\ Cardinality(combined_list_to_upgrade) = 3
  /\ dependency_issue_packages # {}
  /\ rev_deps_trail_packages # {}

====
